---- MODULE Spec2Model ----
(***************************************************************************)
(* Model of the notebooks of the repository:                               *)
(*   examples/word_language_model/quantize_lstm.ipynb  ("lstm": converting *)
(*     a pretrained LSTM language model, calibrating, quantizing and       *)
(*     evaluating it; the same file also carries the parameter-histogram   *)
(*     notebook, "hist"),                                                  *)
(*   jupyter/save_intermediate_feature_maps.ipynb      ("fm").             *)
(* A kernel runs one notebook from its first statement to its last; a      *)
(* statement that raises halts the run.                                    *)
(***************************************************************************)
EXTENDS Integers, Sequences, FiniteSets, TLC

VARIABLES
    nb,          \* the notebook the kernel runs: "lstm", "fm", "hist" or "unit"
    pc,          \* index of the next statement of the notebook's program
    halted,      \* an exception has propagated to the cell
    raisedAt,    \* index of the statement that raised (0: none)
    log,         \* indices of the statements that have completed, in order
    fs,          \* the files the notebooks read and write
    \* ---- quantize_lstm.ipynb
    corpus, train_data, val_data, test_data,
    heap,        \* tensor storage: heap[id] is the value of tensor id
    rnn_model, man_model, model_fp16,
    batch0,      \* (data, targets) of cell 6
    collector, quantizer, val_loss,
    ev,          \* the frame of the running evaluate call
    reruns,      \* how often the calibration cell has been executed again
    calib_evals, \* number of evaluate calls started by the calibration cell
    weight_sum,  \* sum of len(data) over the batches of the latest evaluate call
    \* ---- save_intermediate_feature_maps.ipynb
    modules,     \* the modules of resnet50_sparse
    distiller_name,        \* module -> its distiller_name attribute
    hooks,       \* the modules whose forward hook is registered
    cb_handles, intermediary_results, intermediary_results_from_file,
    fwd,         \* the frame of the running forward pass
    last_out,    \* module -> output of its latest call in the hooked pass
    printed,     \* what the cells have printed
    \* ---- the parameter-histogram notebook
    model_params,          \* model.named_parameters()
    hist_i,      \* position of the histogram loop
    figures,     \* the figures shown
    \* ---- calls of single functions
    fn_data, fn_bsz, fn_out,
    gb_source, gb_i, gb_out

commonVars == <<nb, pc, halted, raisedAt, log, fs>>
lstmVars == <<corpus, train_data, val_data, test_data, heap, rnn_model,
              man_model, model_fp16, batch0, collector, quantizer, val_loss,
              ev, reruns, calib_evals, weight_sum>>
fmVars == <<modules, distiller_name, hooks, cb_handles, intermediary_results,
            intermediary_results_from_file, fwd, last_out, printed>>
histVars == <<model_params, hist_i, figures>>
gbVars == <<gb_source, gb_i, gb_out>>
unitVars == <<fn_data, fn_bsz, fn_out, gbVars>>
others == <<fmVars, histVars, unitVars>>
vars == <<commonVars, lstmVars, fmVars, histVars, unitVars>>

----------------------------------------------------------------------------
(* Bounds *)
MaxCorpusLen == 720     \* longest corpus split
CorpusStride == 90      \* corpus lengths are the multiples of this
MaxLoss == 2            \* batch losses are 1..MaxLoss
MaxReruns == 1          \* re-executions of the calibration cell
MaxModules == 3         \* modules of the image classifier
MaxCalls == 4           \* module calls of one forward pass
MaxParams == 3          \* parameters of the model of the histogram notebook
MaxDataLen == 6         \* longest argument of a single batchify call
MaxBsz == 3             \* largest bsz of a single batchify call
MaxRows == 38           \* most rows of the source of a single get_batch call
MaxCols == 2            \* most columns of that source

(* Program constants *)
batch_size == 20
eval_batch_size == 10
sequence_len == 35

Min(a, b) == IF a < b THEN a ELSE b
Max(a, b) == IF a > b THEN a ELSE b

NoFile == [kind |-> "absent"]

----------------------------------------------------------------------------
(* Tensors of rank 2: shape and the rows, each a sequence of shape[2] values *)
Tensor2(r, c, rows) == [shape |-> <<r, c>>, rows |-> rows]
EmptyTensor2 == Tensor2(0, 0, <<>>)

(* Python's s[a:b] on a sequence of length n (negative bounds count from the end) *)
PyIndex(k, n) == IF k < 0 THEN Max(k + n, 0) ELSE Min(k, n)
PySlice(s, a, b) ==
    LET n == Len(s)
        lo == PyIndex(a, n)
        hi == PyIndex(b, n)
    IN  IF hi <= lo THEN <<>> ELSE SubSeq(s, lo + 1, hi)

(* data.narrow(0, 0, n) on a 1-D tensor *)
Narrow(data, n) == SubSeq(data, 1, n)

(* t.view(bsz, -1) of a contiguous 1-D tensor: bsz rows of numel/bsz values *)
View2(flat, bsz) ==
    LET w == Len(flat) \div bsz
    IN  Tensor2(bsz, w, [r \in 1..bsz |-> SubSeq(flat, (r - 1) * w + 1, r * w)])

(* t.t().contiguous() *)
Transpose(t) ==
    Tensor2(t.shape[2], t.shape[1],
            [i \in 1..t.shape[2] |-> [j \in 1..t.shape[1] |-> t.rows[j][i]]])

(* faulty variant: lays the values out row by row instead of column by column *)
batchifyRowMajor(data, bsz) ==
    LET nbatch == Len(data) \div bsz
        kept == Narrow(data, nbatch * bsz)
    IN  Tensor2(nbatch, bsz,
                [r \in 1..nbatch |-> SubSeq(kept, (r - 1) * bsz + 1, r * bsz)])

batchify(data, bsz) ==
    LET nbatch == Len(data) \div bsz
        kept == Narrow(data, nbatch * bsz)
    IN  Transpose(View2(kept, bsz))

(* len(t) of a rank-2 tensor *)
TLen(t) == t.shape[1]

(* source[a:b] on the rows of a rank-2 tensor *)
RowSlice(t, a, b) ==
    LET rs == PySlice(t.rows, a, b)
    IN  Tensor2(Len(rs), t.shape[2], rs)

RECURSIVE Flatten(_)
Flatten(rows) == IF rows = <<>> THEN <<>> ELSE Head(rows) \o Flatten(Tail(rows))

(* faulty variant: does not keep the last row back for the targets *)
get_batchNoReserve(source, i) ==
    LET seq_len == Min(sequence_len, TLen(source) - i)
    IN  [data   |-> RowSlice(source, i, i + seq_len),
         target |-> Flatten(RowSlice(source, i + 1, i + 1 + seq_len).rows)]

get_batch(source, i) ==
    LET seq_len == Min(sequence_len, TLen(source) - 1 - i)
    IN  [data   |-> RowSlice(source, i, i + seq_len),
         target |-> Flatten(RowSlice(source, i + 1, i + 1 + seq_len).rows)]

----------------------------------------------------------------------------
(* Models: the hyper-parameters and the ids of the parameter tensors *)
NoModel == [impl |-> "none", nlayers |-> 0, ninp |-> 0, nhid |-> 0, ntoken |-> 0,
            tie_weights |-> FALSE, encoder_weight |-> 0, decoder_weight |-> 0,
            decoder_bias |-> 0, rnn |-> [impl |-> "none", weight |-> 0],
            dtype |-> "none", training |-> FALSE, quantized |-> FALSE]

ParamIds(m) == {m.encoder_weight, m.decoder_weight, m.decoder_bias, m.rnn.weight}

(* A copy of the object graph of m whose tensors take their values from vals
   and live at fresh ids of h; tensors shared in m stay shared in the copy. *)
Rank(id, ids) == Cardinality({j \in ids : j <= id})
Relocate(m, vals, h) ==
    LET ids == ParamIds(m)
        base == Len(h)
        new(id) == base + Rank(id, ids)
        old(k) == CHOOSE id \in ids : Rank(id, ids) = k
    IN  [model |-> [m EXCEPT !.encoder_weight = new(m.encoder_weight),
                             !.decoder_weight = new(m.decoder_weight),
                             !.decoder_bias = new(m.decoder_bias),
                             !.rnn = [m.rnn EXCEPT !.weight = new(m.rnn.weight)]],
         heap  |-> h \o [k \in 1..Cardinality(ids) |-> vals[old(k)]]]

(* torch.save(m, f): the pickled object graph with the tensors' values *)
TorchSave(m, h) == [kind |-> "model", model |-> m,
                    vals |-> [id \in ParamIds(m) |-> h[id]]]
(* torch.load(f) *)
TorchLoad(f, h) == Relocate(f.model, f.vals, h)
(* copy.deepcopy(m) *)
DeepCopy(m, h) == Relocate(m, [id \in ParamIds(m) |-> h[id]], h)

(* DistillerRNNModel(nlayers, ninp, nhid, ntoken, tie_weights): freshly
   initialised parameters (value 0); tie_weights shares the decoder's weight
   with the encoder's. *)
DistillerRNNModel(nlayers, ninp, nhid, ntoken, tie_weights, h) ==
    LET b == Len(h)
    IN  [model |-> [impl |-> "DistillerRNNModel", nlayers |-> nlayers,
                    ninp |-> ninp, nhid |-> nhid, ntoken |-> ntoken,
                    tie_weights |-> tie_weights,
                    encoder_weight |-> b + 1,
                    decoder_weight |-> IF tie_weights THEN b + 1 ELSE b + 2,
                    decoder_bias |-> b + 3,
                    rnn |-> [impl |-> "DistillerLSTM", weight |-> b + 4],
                    dtype |-> "fp32", training |-> TRUE, quantized |-> FALSE],
         heap  |-> h \o <<0, 0, 0, 0>>]

(* faulty variant: wraps the original tensor without cloning it *)
CloneAlias(id, h) == [id |-> id, heap |-> h]

(* x.clone().detach() wrapped in nn.Parameter: a new tensor with x's value *)
Clone(id, h) == [id |-> Len(h) + 1, heap |-> Append(h, h[id])]

(* LSTM.from_pytorch_impl(rnn): the modular implementation holding copies of
   the built-in LSTM's parameters *)
from_pytorch_impl(rnn, h) ==
    [rnn  |-> [impl |-> "DistillerLSTM", weight |-> Len(h) + 1],
     heap |-> Append(h, h[rnn.weight])]

manual_model(pytorch_model_, h) ==
    LET c  == DistillerRNNModel(pytorch_model_.nlayers, pytorch_model_.ninp,
                                pytorch_model_.nhid, pytorch_model_.ntoken,
                                pytorch_model_.tie_weights, h)
        ew == Clone(pytorch_model_.encoder_weight, c.heap)
        dw == Clone(pytorch_model_.decoder_weight, ew.heap)
        db == Clone(pytorch_model_.decoder_bias, dw.heap)
        r  == from_pytorch_impl(pytorch_model_.rnn, db.heap)
    IN  [model |-> [c.model EXCEPT !.training = FALSE,
                                   !.encoder_weight = ew.id,
                                   !.decoder_weight = dw.id,
                                   !.decoder_bias = db.id,
                                   !.rnn = r.rnn],
         heap  |-> r.heap]

----------------------------------------------------------------------------
(* The statements of quantize_lstm.ipynb, in cell order.  cell is the cell's
   execution count, arg the statement's file or model. *)
Stmt(op, cell, arg) == [op |-> op, cell |-> cell, arg |-> arg]

LstmProgramSwapped ==
    << Stmt("corpus", 2, ""), Stmt("batchify", 3, ""),
       Stmt("load_pretrained", 4, ""),
       Stmt("manual_model", 5, ""), Stmt("save_manual", 5, ""),
       Stmt("get_batch", 6, ""), Stmt("check", 7, ""),
       Stmt("load_manual", 10, ""), Stmt("evaluate", 10, "man_model"),
       Stmt("construct", 11, "stats"), Stmt("prepare", 11, ""),
       Stmt("evaluate", 13, "quantizer"),
       Stmt("load_manual", 9, ""), Stmt("collector", 9, ""),
       Stmt("isfile", 9, ""), Stmt("enter_ctx", 9, ""),
       Stmt("evaluate", 9, "man_model"), Stmt("collector_save", 9, ""),
       Stmt("construct", 15, "stats_new"), Stmt("prepare", 15, ""),
       Stmt("evaluate", 16, "quantizer"),
       Stmt("half", 17, ""), Stmt("evaluate", 17, "model_fp16"),
       Stmt("construct", 18, "stats_new"), Stmt("prepare", 18, ""),
       Stmt("evaluate", 18, "quantizer"),
       Stmt("construct", 20, "stats"), Stmt("prepare", 20, ""),
       Stmt("evaluate", 20, "quantizer"),
       Stmt("construct", 21, "stats_new"), Stmt("prepare", 21, ""),
       Stmt("evaluate", 21, "quantizer") >>

LstmProgram ==
    << Stmt("corpus", 2, ""), Stmt("batchify", 3, ""),
       Stmt("load_pretrained", 4, ""),
       Stmt("manual_model", 5, ""), Stmt("save_manual", 5, ""),
       Stmt("get_batch", 6, ""), Stmt("check", 7, ""),
       Stmt("load_manual", 9, ""), Stmt("collector", 9, ""),
       Stmt("isfile", 9, ""), Stmt("enter_ctx", 9, ""),
       Stmt("evaluate", 9, "man_model"), Stmt("collector_save", 9, ""),
       Stmt("load_manual", 10, ""), Stmt("evaluate", 10, "man_model"),
       Stmt("construct", 11, "stats"), Stmt("prepare", 11, ""),
       Stmt("evaluate", 13, "quantizer"),
       Stmt("construct", 15, "stats_new"), Stmt("prepare", 15, ""),
       Stmt("evaluate", 16, "quantizer"),
       Stmt("half", 17, ""), Stmt("evaluate", 17, "model_fp16"),
       Stmt("construct", 18, "stats_new"), Stmt("prepare", 18, ""),
       Stmt("evaluate", 18, "quantizer"),
       Stmt("construct", 20, "stats"), Stmt("prepare", 20, ""),
       Stmt("evaluate", 20, "quantizer"),
       Stmt("construct", 21, "stats_new"), Stmt("prepare", 21, ""),
       Stmt("evaluate", 21, "quantizer") >>

CalibrationCell == 9

(* the if-body of the calibration cell: enter_ctx, evaluate, collector_save *)
IfBodyLen == 3

----------------------------------------------------------------------------
(* faulty variant: runs the sanity forward pass of cell 3 after the hooked pass,
   while the hooks are still registered *)
FmProgramLateForward ==
    << Stmt("create_models", 2, ""), Stmt("preprocess", 3, ""),
       Stmt("init_dicts", 4, ""), Stmt("assign_names", 4, ""),
       Stmt("apply_register", 4, ""), Stmt("forward", 4, "hooked"),
       Stmt("forward", 3, "plain"), Stmt("top1", 3, ""),
       Stmt("remove_hooks", 4, ""), Stmt("print_len", 4, ""),
       Stmt("dump", 5, ""),
       Stmt("init_from_file", 6, ""), Stmt("load", 6, ""),
       Stmt("print_names", 6, "") >>

(* save_intermediate_feature_maps.ipynb *)
FmProgram ==
    << Stmt("create_models", 2, ""), Stmt("preprocess", 3, ""),
       Stmt("forward", 3, "plain"), Stmt("top1", 3, ""),
       Stmt("init_dicts", 4, ""), Stmt("assign_names", 4, ""),
       Stmt("apply_register", 4, ""), Stmt("forward", 4, "hooked"),
       Stmt("remove_hooks", 4, ""), Stmt("print_len", 4, ""),
       Stmt("dump", 5, ""),
       Stmt("init_from_file", 6, ""), Stmt("load", 6, ""),
       Stmt("print_names", 6, "") >>

(* the parameter-histogram notebook *)
HistProgram == << Stmt("create_model", 2, ""), Stmt("hist_loop", 3, "") >>

Program ==
    IF nb = "lstm" THEN LstmProgram
    ELSE IF nb = "fm" THEN FmProgram
    ELSE IF nb = "hist" THEN HistProgram
    ELSE <<>>

Cur == Program[pc]
At(op) == ~halted /\ pc <= Len(Program) /\ Program[pc].op = op
Done == ~halted /\ pc = Len(Program) + 1

(* the statement at pc completes *)
Finish == /\ pc' = pc + 1
          /\ log' = Append(log, pc)
          /\ UNCHANGED <<nb, halted, raisedAt>>

----------------------------------------------------------------------------
(* Files on disk before the kernel starts *)
Tokens(n) == [k \in 1..n |-> k]
CorpusLens == {n \in 0..MaxCorpusLen : n % CorpusStride = 0}
Wikitext(n) == [kind |-> "corpus", train |-> Tokens(n), valid |-> Tokens(n),
                test |-> Tokens(n)]

(* checkpoint.pth.tar.best: an RNNModel, trained with or without --tied *)
Pretrained(tied) ==
    [kind |-> "model",
     model |-> [impl |-> "RNNModel", nlayers |-> 2,
                ninp |-> IF tied THEN 1500 ELSE 650, nhid |-> 1500,
                ntoken |-> 33278, tie_weights |-> tied,
                encoder_weight |-> 1,
                decoder_weight |-> IF tied THEN 1 ELSE 2,
                decoder_bias |-> 3,
                rnn |-> [impl |-> "LSTM", weight |-> 4],
                dtype |-> "fp32", training |-> TRUE, quantized |-> FALSE],
     vals |-> [id \in (IF tied THEN {1, 3, 4} ELSE {1, 2, 3, 4}) |-> 10 + id]]

(* a manual.checkpoint.pth.tar left behind by an earlier session *)
StaleManual ==
    [kind |-> "model",
     model |-> [impl |-> "DistillerRNNModel", nlayers |-> 1, ninp |-> 200,
                nhid |-> 200, ntoken |-> 33278, tie_weights |-> FALSE,
                encoder_weight |-> 1, decoder_weight |-> 2, decoder_bias |-> 3,
                rnn |-> [impl |-> "DistillerLSTM", weight |-> 4],
                dtype |-> "fp32", training |-> FALSE, quantized |-> FALSE],
     vals |-> [id \in {1, 2, 3, 4} |-> 20 + id]]

StatsFile(records) == [kind |-> "stats", records |-> records]
(* statistics written by an earlier session, and the manually edited copy *)
StaleStats == StatsFile(<<35, 7>>)
EditedStats == StatsFile(<<6>>)

LstmFiles ==
    { [wikitext |-> Wikitext(n), checkpoint_best |-> c, manual_checkpoint |-> m,
       stats |-> s, stats_new |-> sn, fms |-> NoFile,
       sparse_checkpoint |-> NoFile, image |-> NoFile] :
        n \in CorpusLens,
        c \in {NoFile, Pretrained(TRUE), Pretrained(FALSE)},
        m \in {NoFile, StaleManual},
        s \in {NoFile, StaleStats},
        sn \in {NoFile, EditedStats} }

----------------------------------------------------------------------------
NoCollector == [active |-> FALSE, records |-> <<>>, model |-> NoModel]
NoQuantizer == [model |-> NoModel, stats |-> NoFile, prepared |-> 0, cell |-> 0]
NoLoss == [total |-> 0, nan |-> FALSE, len |-> 0]
NoFrame == [active |-> FALSE, target |-> "", i |-> 0, total_loss |-> 0, nan |-> FALSE]
NoBatch == [data |-> EmptyTensor2, target |-> <<>>]
NoCorpus == [kind |-> "absent"]

LstmIdle ==
    /\ corpus = NoCorpus
    /\ train_data = EmptyTensor2 /\ val_data = EmptyTensor2 /\ test_data = EmptyTensor2
    /\ heap = <<>>
    /\ rnn_model = NoModel /\ man_model = NoModel /\ model_fp16 = NoModel
    /\ batch0 = NoBatch
    /\ collector = NoCollector /\ quantizer = NoQuantizer /\ val_loss = NoLoss
    /\ ev = NoFrame
    /\ reruns = 0 /\ calib_evals = 0 /\ weight_sum = 0

InitLstm == nb = "lstm" /\ fs \in LstmFiles

----------------------------------------------------------------------------
(* cell 2: corpus = Corpus('./data/wikitext-2/') *)
LoadCorpus ==
    /\ At("corpus")
    /\ corpus' = fs.wikitext
    /\ Finish
    /\ UNCHANGED <<others, fs, train_data, val_data, test_data, heap, rnn_model,
                   man_model, model_fp16, batch0, collector, quantizer,
                   val_loss, ev, reruns, calib_evals, weight_sum>>

(* cell 3: the three batchify calls *)
BatchifyCell ==
    /\ At("batchify")
    /\ train_data' = batchify(corpus.train, batch_size)
    /\ val_data' = batchify(corpus.valid, eval_batch_size)
    /\ test_data' = batchify(corpus.test, eval_batch_size)
    /\ Finish
    /\ UNCHANGED <<others, fs, corpus, heap, rnn_model, man_model, model_fp16, batch0,
                   collector, quantizer, val_loss, ev, reruns, calib_evals,
                   weight_sum>>

(* cell 4: rnn_model = torch.load('./checkpoint.pth.tar.best') *)
LoadPretrained ==
    /\ At("load_pretrained")
    /\ fs.checkpoint_best # NoFile
    /\ LET l == TorchLoad(fs.checkpoint_best, heap)
       IN  rnn_model' = l.model /\ heap' = l.heap
    /\ Finish
    /\ UNCHANGED <<others, fs, corpus, train_data, val_data, test_data, man_model,
                   model_fp16, batch0, collector, quantizer, val_loss, ev,
                   reruns, calib_evals, weight_sum>>

(* cell 5: man_model = manual_model(rnn_model) *)
ManualModel ==
    /\ At("manual_model")
    /\ LET r == manual_model(rnn_model, heap)
       IN  man_model' = r.model /\ heap' = r.heap
    /\ Finish
    /\ UNCHANGED <<others, fs, corpus, train_data, val_data, test_data, rnn_model,
                   model_fp16, batch0, collector, quantizer, val_loss, ev,
                   reruns, calib_evals, weight_sum>>

(* cell 5: torch.save(man_model, 'manual.checkpoint.pth.tar') *)
SaveManual ==
    /\ At("save_manual")
    /\ fs' = [fs EXCEPT !.manual_checkpoint = TorchSave(man_model, heap)]
    /\ Finish
    /\ UNCHANGED <<others, lstmVars>>

(* cell 6: data, targets = get_batch(test_data, 0) *)
GetBatchCell ==
    /\ At("get_batch")
    /\ batch0' = get_batch(test_data, 0)
    /\ Finish
    /\ UNCHANGED <<others, fs, corpus, train_data, val_data, test_data, heap, rnn_model,
                   man_model, model_fp16, collector, quantizer, val_loss, ev,
                   reruns, calib_evals, weight_sum>>

(* cell 7: both models in eval mode, one forward pass through each *)
ConversionCheck ==
    /\ At("check")
    /\ rnn_model' = [rnn_model EXCEPT !.training = FALSE]
    /\ man_model' = [man_model EXCEPT !.training = FALSE]
    /\ Finish
    /\ UNCHANGED <<others, fs, corpus, train_data, val_data, test_data, heap,
                   model_fp16, batch0, collector, quantizer, val_loss, ev,
                   reruns, calib_evals, weight_sum>>

(* cells 9, 10: man_model = torch.load('./manual.checkpoint.pth.tar') *)
LoadManual ==
    /\ At("load_manual")
    /\ fs.manual_checkpoint # NoFile
    /\ LET l == TorchLoad(fs.manual_checkpoint, heap)
       IN  man_model' = l.model /\ heap' = l.heap
    /\ Finish
    /\ UNCHANGED <<others, fs, corpus, train_data, val_data, test_data, rnn_model,
                   model_fp16, batch0, collector, quantizer, val_loss, ev,
                   reruns, calib_evals, weight_sum>>

(* cell 9: collector = QuantCalibrationStatsCollector(man_model) *)
MakeCollector ==
    /\ At("collector")
    /\ collector' = [active |-> FALSE, records |-> <<>>, model |-> man_model]
    /\ Finish
    /\ UNCHANGED <<others, fs, corpus, train_data, val_data, test_data, heap, rnn_model,
                   man_model, model_fp16, batch0, quantizer, val_loss, ev,
                   reruns, calib_evals, weight_sum>>

(* faulty variant: collects whether or not the file exists *)
StatsMissingAlways(files) == TRUE

(* not os.path.isfile('manual_lstm_pretrained_stats.yaml') *)
StatsMissing(files) == files.stats = NoFile

(* cell 9: the if statement; its body is skipped when the file exists *)
IsFile ==
    /\ At("isfile")
    /\ pc' = IF StatsMissing(fs) THEN pc + 1 ELSE pc + 1 + IfBodyLen
    /\ log' = Append(log, pc)
    /\ UNCHANGED <<others, nb, halted, raisedAt, fs, lstmVars>>

(* cell 9: with collector_context(collector) as collector *)
EnterContext ==
    /\ At("enter_ctx")
    /\ collector' = [collector EXCEPT !.active = TRUE, !.records = <<>>]
    /\ Finish
    /\ UNCHANGED <<others, fs, corpus, train_data, val_data, test_data, heap, rnn_model,
                   man_model, model_fp16, batch0, quantizer, val_loss, ev,
                   reruns, calib_evals, weight_sum>>

(* the model an evaluate statement is called on *)
EvalModel(target) ==
    IF target = "quantizer" THEN quantizer.model
    ELSE IF target = "model_fp16" THEN model_fp16 ELSE man_model

(* evaluate(model, val_data) up to the loop: model.eval(), total_loss = 0. *)
EvaluateBegin ==
    /\ At("evaluate") /\ ~ev.active
    /\ ev' = [active |-> TRUE, target |-> Cur.arg, i |-> 0, total_loss |-> 0,
              nan |-> FALSE]
    /\ weight_sum' = 0
    /\ calib_evals' = IF Cur.cell = CalibrationCell THEN calib_evals + 1
                      ELSE calib_evals
    /\ man_model' = IF Cur.arg = "man_model"
                    THEN [man_model EXCEPT !.training = FALSE] ELSE man_model
    /\ model_fp16' = IF Cur.arg = "model_fp16"
                     THEN [model_fp16 EXCEPT !.training = FALSE] ELSE model_fp16
    /\ quantizer' = IF Cur.arg = "quantizer"
                    THEN [quantizer EXCEPT !.model.training = FALSE] ELSE quantizer
    /\ UNCHANGED <<others, commonVars, corpus, train_data, val_data, test_data, heap,
                   rnn_model, batch0, collector, val_loss, reruns>>

(* one iteration of the loop of evaluate: a batch, a forward pass, the loss.
   The mean loss of a batch without time steps is not a number. *)
EvaluateBatch ==
    /\ At("evaluate") /\ ev.active
    /\ ev.i < TLen(val_data)
    /\ LET b == get_batch(val_data, ev.i)
           n == TLen(b.data)
       IN  /\ \E loss \in 1..MaxLoss :
                ev' = [ev EXCEPT !.i = ev.i + sequence_len,
                                 !.total_loss = ev.total_loss + n * loss,
                                 !.nan = ev.nan \/ n = 0]
           /\ weight_sum' = weight_sum + n
           /\ collector' =
                IF collector.active /\ EvalModel(ev.target) = collector.model
                THEN [collector EXCEPT !.records = Append(collector.records, n)]
                ELSE collector
    /\ UNCHANGED <<others, commonVars, corpus, train_data, val_data, test_data, heap,
                   rnn_model, man_model, model_fp16, batch0, quantizer,
                   val_loss, reruns, calib_evals>>

(* the divisor of the return statement of evaluate: len(data_source) *)
EvalDivisor(data_source) == TLen(data_source)

(* return total_loss / len(data_source); the division raises on a zero divisor *)
EvaluateReturn ==
    /\ At("evaluate") /\ ev.active
    /\ ev.i >= TLen(val_data)
    /\ ev' = NoFrame
    /\ IF EvalDivisor(val_data) = 0
       THEN /\ halted' = TRUE /\ raisedAt' = pc
            /\ UNCHANGED <<nb, pc, log, val_loss>>
       ELSE /\ val_loss' = [total |-> ev.total_loss, nan |-> ev.nan,
                            len |-> EvalDivisor(val_data)]
            /\ Finish
    /\ UNCHANGED <<others, fs, corpus, train_data, val_data, test_data, heap, rnn_model,
                   man_model, model_fp16, batch0, collector, quantizer, reruns,
                   calib_evals, weight_sum>>

(* cell 9: collector.save('manual_lstm_pretrained_stats.yaml'), the last
   statement of the with block, whose exit stops the collector *)
CollectorSave ==
    /\ At("collector_save")
    /\ fs' = [fs EXCEPT !.stats = StatsFile(collector.records)]
    /\ collector' = [collector EXCEPT !.active = FALSE]
    /\ Finish
    /\ UNCHANGED <<others, corpus, train_data, val_data, test_data, heap, rnn_model,
                   man_model, model_fp16, batch0, quantizer, val_loss, ev,
                   reruns, calib_evals, weight_sum>>

(* the file a quantizer reads its activation statistics from *)
StatsOf(arg) == IF arg = "stats" THEN fs.stats ELSE fs.stats_new

(* quantizer = PostTrainLinearQuantizer(deepcopy(man_model),
                                        model_activation_stats=...) *)
Construct ==
    /\ At("construct")
    /\ StatsOf(Cur.arg) # NoFile
    /\ LET c == DeepCopy(man_model, heap)
       IN  /\ quantizer' = [model |-> c.model, stats |-> StatsOf(Cur.arg),
                            prepared |-> 0, cell |-> Cur.cell]
           /\ heap' = c.heap
    /\ Finish
    /\ UNCHANGED <<others, fs, corpus, train_data, val_data, test_data, rnn_model,
                   man_model, model_fp16, batch0, collector, val_loss, ev,
                   reruns, calib_evals, weight_sum>>

(* quantizer.prepare_model() *)
Prepare ==
    /\ At("prepare")
    /\ quantizer' = [quantizer EXCEPT !.prepared = quantizer.prepared + 1,
                                      !.model.quantized = TRUE]
    /\ Finish
    /\ UNCHANGED <<others, fs, corpus, train_data, val_data, test_data, heap, rnn_model,
                   man_model, model_fp16, batch0, collector, val_loss, ev,
                   reruns, calib_evals, weight_sum>>

(* cell 17: model_fp16 = deepcopy(man_model).half() *)
Half ==
    /\ At("half")
    /\ LET c == DeepCopy(man_model, heap)
       IN  /\ model_fp16' = [c.model EXCEPT !.dtype = "fp16"]
           /\ heap' = c.heap
    /\ Finish
    /\ UNCHANGED <<others, fs, corpus, train_data, val_data, test_data, rnn_model,
                   man_model, batch0, collector, quantizer, val_loss, ev,
                   reruns, calib_evals, weight_sum>>

(* The calibration cell is executed once more right after it has finished. *)
CalibrationCellFinished ==
    /\ ~halted /\ pc > 1
    /\ Program[pc - 1].cell = CalibrationCell
    /\ pc <= Len(Program) => Program[pc].cell # CalibrationCell
FirstOfCell(c) ==
    CHOOSE i \in 1..Len(Program) :
        Program[i].cell = c /\ \A j \in 1..(i - 1) : Program[j].cell # c
RerunCalibrationCell ==
    /\ CalibrationCellFinished
    /\ reruns < MaxReruns
    /\ reruns' = reruns + 1
    /\ pc' = FirstOfCell(CalibrationCell)
    /\ UNCHANGED <<others, nb, halted, raisedAt, log, fs, corpus, train_data, val_data,
                   test_data, heap, rnn_model, man_model, model_fp16, batch0,
                   collector, quantizer, val_loss, ev, calib_evals, weight_sum>>

----------------------------------------------------------------------------
(* save_intermediate_feature_maps.ipynb: feature maps and their pickle *)

(* the fully qualified names of the modules of the network *)
LayerNames == <<"conv1", "layer1.0.conv1", "layer1.0.relu", "fc", "avgpool">>
FqName(m) == LayerNames[m]
NameCode(name) == CHOOSE c \in 1..Len(LayerNames) : LayerNames[c] = name

RECURSIVE Prod(_)
Prod(shape) == IF shape = <<>> THEN 1 ELSE Head(shape) * Prod(Tail(shape))

(* the outputs a module can produce *)
CudaTensor(shape, data) == [kind |-> "Tensor", shape |-> shape, data |-> data]
FeatureMaps == { CudaTensor(<<1, 1>>, <<0>>), CudaTensor(<<1, 2>>, <<3, 0>>),
                 CudaTensor(<<2, 1>>, <<3, 0>>) }

(* o.data.cpu().numpy() *)
ToNumpy(o) == [kind |-> "ndarray", shape |-> o.shape, data |-> o.data]

EmptyDict == <<>>
DictLen(d) == Cardinality(DOMAIN d)

(* faulty variant: keeps the first output of a module *)
save_conv_output_first(results, m, o) ==
    results @@ (distiller_name[m] :> ToNumpy(o))

(* intermediary_results[m.distiller_name] = o.data.cpu().numpy() *)
save_conv_output(results, m, o) ==
    (distiller_name[m] :> ToNumpy(o)) @@ results

(* register_forward_hook(m) on the pair of hooks and cb_handles *)
register_forward_hook(st, m) ==
    IF m \in DOMAIN distiller_name
    THEN [hooks |-> st.hooks \cup {m}, cb_handles |-> Append(st.cb_handles, m)]
    ELSE st

(* resnet50_sparse.apply(register_forward_hook): every module, in order *)
RECURSIVE Apply(_, _)
Apply(st, m) ==
    IF m \notin modules THEN st ELSE Apply(register_forward_hook(st, m), m + 1)

(* the forward hooks of m run when its forward has produced the output *)
HookFires(m) == m \in hooks

(* pickle: the stream is the number of items, then per item the code of the
   key, the rank and the shape of the array, and its data *)
EncodeArray(a) == <<Len(a.shape)>> \o a.shape \o a.data
RECURSIVE DumpItems(_, _)
DumpItems(d, keys) ==
    IF keys = {} THEN <<>>
    ELSE LET k == CHOOSE x \in keys : \A y \in keys : NameCode(x) <= NameCode(y)
         IN  <<NameCode(k)>> \o EncodeArray(d[k]) \o DumpItems(d, keys \ {k})
PickleDump(d) == <<DictLen(d)>> \o DumpItems(d, DOMAIN d)

RECURSIVE LoadItems(_, _, _)
LoadItems(b, pos, k) ==
    IF k = 0 THEN EmptyDict
    ELSE LET ndim == b[pos + 1]
             shape == SubSeq(b, pos + 2, pos + 1 + ndim)
             n == Prod(shape)
             data == SubSeq(b, pos + 2 + ndim, pos + 1 + ndim + n)
         IN  (LayerNames[b[pos]] :> [kind |-> "ndarray", shape |-> shape,
                                     data |-> data])
             @@ LoadItems(b, pos + 2 + ndim + n, k - 1)

(* faulty variant: reads one item less than the stream holds *)
PickleLoadShort(b) == LoadItems(b, 2, Max(b[1] - 1, 0))

PickleLoad(b) == LoadItems(b, 2, b[1])

PickleFile(bytes) == [kind |-> "pickle", bytes |-> bytes]
(* a resnet50_sparse_fms.pickle left behind by an earlier session *)
StaleFms == PickleFile(<<1, 4, 2, 1, 1, 9>>)
Present == [kind |-> "present"]

FmFiles ==
    { [wikitext |-> NoFile, checkpoint_best |-> NoFile,
       manual_checkpoint |-> NoFile, stats |-> NoFile, stats_new |-> NoFile,
       fms |-> f, sparse_checkpoint |-> c, image |-> i] :
        f \in {NoFile, StaleFms}, c \in {NoFile, Present}, i \in {NoFile, Present} }

NoFiles == [wikitext |-> NoFile, checkpoint_best |-> NoFile,
            manual_checkpoint |-> NoFile, stats |-> NoFile, stats_new |-> NoFile,
            fms |-> NoFile, sparse_checkpoint |-> NoFile, image |-> NoFile]

NoFwd == [active |-> FALSE, calls |-> 0]

FmIdle ==
    /\ modules = {} /\ distiller_name = EmptyDict /\ hooks = {}
    /\ cb_handles = <<>> /\ intermediary_results = EmptyDict
    /\ intermediary_results_from_file = EmptyDict
    /\ fwd = NoFwd /\ last_out = EmptyDict /\ printed = <<>>

InitFm == nb = "fm" /\ fs \in FmFiles

(* cell 2: the two models and the checkpoint of the sparse one *)
CreateModels ==
    /\ At("create_models")
    /\ fs.sparse_checkpoint # NoFile
    /\ \E n \in 1..MaxModules : modules' = 1..n
    /\ Finish
    /\ UNCHANGED <<fs, lstmVars, histVars, unitVars, distiller_name, hooks,
                   cb_handles, intermediary_results,
                   intermediary_results_from_file, fwd, last_out, printed>>

(* cell 3: the image is opened and preprocessed *)
Preprocess ==
    /\ At("preprocess")
    /\ fs.image # NoFile
    /\ Finish
    /\ UNCHANGED <<fs, lstmVars, fmVars, histVars, unitVars>>

(* predictions = resnet50_sparse(sample.cuda()): the call starts *)
ForwardBegin ==
    /\ At("forward") /\ ~fwd.active
    /\ fwd' = [active |-> TRUE, calls |-> 0]
    /\ UNCHANGED <<commonVars, lstmVars, histVars, unitVars, modules,
                   distiller_name, hooks, cb_handles, intermediary_results,
                   intermediary_results_from_file, last_out, printed>>

(* inside the forward pass: module m produces the output o, then its hooks run *)
ModuleCall ==
    /\ At("forward") /\ fwd.active
    /\ fwd.calls < MaxCalls
    /\ \E m \in modules, o \in FeatureMaps :
        /\ intermediary_results' =
             IF HookFires(m) THEN save_conv_output(intermediary_results, m, o)
             ELSE intermediary_results
        /\ last_out' = IF Cur.arg = "hooked" THEN (m :> o) @@ last_out
                       ELSE last_out
    /\ fwd' = [fwd EXCEPT !.calls = fwd.calls + 1]
    /\ UNCHANGED <<commonVars, lstmVars, histVars, unitVars, modules,
                   distiller_name, hooks, cb_handles,
                   intermediary_results_from_file, printed>>

(* the forward call returns *)
ForwardReturn ==
    /\ At("forward") /\ fwd.active
    /\ fwd' = NoFwd
    /\ Finish
    /\ UNCHANGED <<fs, lstmVars, histVars, unitVars, modules, distiller_name,
                   hooks, cb_handles, intermediary_results,
                   intermediary_results_from_file, last_out, printed>>

(* cell 3: top1_vals, top1_indices = torch.max(predictions, 1); print *)
Top1 ==
    /\ At("top1")
    /\ Finish
    /\ UNCHANGED <<fs, lstmVars, fmVars, histVars, unitVars>>

(* cell 4: intermediary_results = {}; cb_handles = [] *)
InitDicts ==
    /\ At("init_dicts")
    /\ intermediary_results' = EmptyDict
    /\ cb_handles' = <<>>
    /\ Finish
    /\ UNCHANGED <<fs, lstmVars, histVars, unitVars, modules, distiller_name,
                   hooks, intermediary_results_from_file, fwd, last_out, printed>>

(* cell 4: distiller.utils.assign_layer_fq_names(resnet50_sparse): modules
   receive their fully qualified name as distiller_name *)
AssignLayerFqNames ==
    /\ At("assign_names")
    /\ \E named \in SUBSET modules :
         distiller_name' = [m \in named |-> FqName(m)]
    /\ Finish
    /\ UNCHANGED <<fs, lstmVars, histVars, unitVars, modules, hooks, cb_handles,
                   intermediary_results, intermediary_results_from_file, fwd,
                   last_out, printed>>

(* cell 4: resnet50_sparse.apply(register_forward_hook) *)
ApplyRegister ==
    /\ At("apply_register")
    /\ LET st == Apply([hooks |-> hooks, cb_handles |-> cb_handles], 1)
       IN  hooks' = st.hooks /\ cb_handles' = st.cb_handles
    /\ Finish
    /\ UNCHANGED <<fs, lstmVars, histVars, unitVars, modules, distiller_name,
                   intermediary_results, intermediary_results_from_file, fwd,
                   last_out, printed>>

(* cell 4: for h in cb_handles: h.remove() *)
RemoveHooks ==
    /\ At("remove_hooks")
    /\ hooks' = hooks \ {cb_handles[k] : k \in 1..Len(cb_handles)}
    /\ Finish
    /\ UNCHANGED <<fs, lstmVars, histVars, unitVars, modules, distiller_name,
                   cb_handles, intermediary_results,
                   intermediary_results_from_file, fwd, last_out, printed>>

(* cell 4: print(len(intermediary_results)) *)
PrintLen ==
    /\ At("print_len")
    /\ printed' = Append(printed, DictLen(intermediary_results))
    /\ Finish
    /\ UNCHANGED <<fs, lstmVars, histVars, unitVars, modules, distiller_name,
                   hooks, cb_handles, intermediary_results,
                   intermediary_results_from_file, fwd, last_out>>

(* cell 5: pickle.dump(intermediary_results, f) into the file opened 'wb' *)
Dump ==
    /\ At("dump")
    /\ fs' = [fs EXCEPT !.fms = PickleFile(PickleDump(intermediary_results))]
    /\ Finish
    /\ UNCHANGED <<lstmVars, fmVars, histVars, unitVars>>

(* cell 6: intermediary_results_from_file = {} *)
InitFromFile ==
    /\ At("init_from_file")
    /\ intermediary_results_from_file' = EmptyDict
    /\ Finish
    /\ UNCHANGED <<fs, lstmVars, histVars, unitVars, modules, distiller_name,
                   hooks, cb_handles, intermediary_results, fwd, last_out,
                   printed>>

(* cell 6: intermediary_results_from_file = pickle.load(f) *)
Load ==
    /\ At("load")
    /\ fs.fms # NoFile /\ fs.fms.bytes # <<>>
    /\ intermediary_results_from_file' = PickleLoad(fs.fms.bytes)
    /\ Finish
    /\ UNCHANGED <<fs, lstmVars, histVars, unitVars, modules, distiller_name,
                   hooks, cb_handles, intermediary_results, fwd, last_out,
                   printed>>

(* cell 6: the loop printing every name with the size of its array *)
RECURSIVE SizesOf(_, _)
SizesOf(d, keys) ==
    IF keys = {} THEN <<>>
    ELSE LET k == CHOOSE x \in keys : \A y \in keys : NameCode(x) <= NameCode(y)
         IN  <<Prod(d[k].shape)>> \o SizesOf(d, keys \ {k})
PrintNames ==
    /\ At("print_names")
    /\ printed' = printed \o SizesOf(intermediary_results_from_file,
                                     DOMAIN intermediary_results_from_file)
    /\ Finish
    /\ UNCHANGED <<fs, lstmVars, histVars, unitVars, modules, distiller_name,
                   hooks, cb_handles, intermediary_results,
                   intermediary_results_from_file, fwd, last_out>>

----------------------------------------------------------------------------
(* The parameter-histogram notebook *)
REMOVE_ZEROS == FALSE
nbins == 500

Param(name, shape, data) == [name |-> name, shape |-> shape, data |-> data]
(* parameters a model can have: convolution weights of rank 4, a rank-5
   weight, a linear weight and a bias; data is the contiguous storage *)
ParamPool ==
    { Param("conv1.weight", <<2, 1, 1, 1>>, <<0, 5>>),
      Param("layer1.conv.weight", <<1, 1, 1, 2>>, <<3, 0>>),
      Param("conv3d.weight", <<1, 1, 1, 1, 1>>, <<2>>),
      Param("fc.weight", <<1, 2>>, <<0, 4>>),
      Param("fc.bias", <<2>>, <<1, 1>>) }

(* the sequences of at most n distinct parameters *)
RECURSIVE ParamLists(_)
ParamLists(n) ==
    IF n = 0 THEN {<<>>}
    ELSE LET shorter == ParamLists(n - 1)
         IN  shorter \cup
             { Append(l, p) : l \in {x \in shorter : Len(x) = n - 1},
                              p \in ParamPool }

Distinct(l) == \A i, j \in 1..Len(l) : i # j => l[i].name # l[j].name

(* weights.dim() *)
Dim(w) == Len(w.shape)
(* weights.numel() *)
Numel(w) == Prod(w.shape)

(* flatten(weights): view(numel), then the numpy array *)
flatten(w) == SubSeq(w.data, 1, Numel(w))

(* weights[weights != 0] *)
NonZero(a) == SelectSeq(a, LAMBDA x : x # 0)

(* faulty variant: draws a figure for every parameter of rank 4 or more *)
IsPlottedAtLeast4(w) == Dim(w) >= 4

(* if weights.dim() == 4 *)
IsPlotted(w) == Dim(w) = 4

(* the figure plt.show() displays for one parameter *)
Figure(w) ==
    LET flat == flatten(w)
        kept == IF REMOVE_ZEROS THEN NonZero(flat) ELSE flat
    IN  [title |-> <<w.name, w.shape>>, hist |-> kept, bins |-> nbins]

HistIdle == model_params = <<>> /\ hist_i = 1 /\ figures = <<>>

InitHist == nb = "hist" /\ fs = NoFiles

(* model = models.create_model(pretrained=True, ...) *)
CreateModel ==
    /\ At("create_model")
    /\ \E l \in ParamLists(MaxParams) : Distinct(l) /\ model_params' = l
    /\ Finish
    /\ UNCHANGED <<fs, lstmVars, fmVars, unitVars, hist_i, figures>>

(* one iteration of: for name, weights in model.named_parameters() *)
HistIter ==
    /\ At("hist_loop")
    /\ hist_i <= Len(model_params)
    /\ figures' = IF IsPlotted(model_params[hist_i])
                  THEN Append(figures, Figure(model_params[hist_i]))
                  ELSE figures
    /\ hist_i' = hist_i + 1
    /\ UNCHANGED <<commonVars, lstmVars, fmVars, unitVars, model_params>>

(* the loop ends *)
HistEnd ==
    /\ At("hist_loop")
    /\ hist_i > Len(model_params)
    /\ Finish
    /\ UNCHANGED <<fs, lstmVars, fmVars, histVars, unitVars>>

----------------------------------------------------------------------------
(* Single calls of batchify *)
NoOut == [applied |-> FALSE, out |-> EmptyTensor2]
UnitIdle == fn_data = <<>> /\ fn_bsz = 1 /\ fn_out = NoOut

RECURSIVE SeqsUpTo(_, _)
SeqsUpTo(S, n) ==
    IF n = 0 THEN {<<>>}
    ELSE LET shorter == SeqsUpTo(S, n - 1)
         IN  shorter \cup { Append(l, x) : l \in {y \in shorter : Len(y) = n - 1},
                                            x \in S }

ApplyBatchify ==
    /\ nb = "unit" /\ ~fn_out.applied
    /\ fn_out' = [applied |-> TRUE, out |-> batchify(fn_data, fn_bsz)]
    /\ UNCHANGED <<commonVars, lstmVars, fmVars, histVars, fn_data, fn_bsz, gbVars>>

(* Single calls of get_batch *)
GbIdle == gb_source = EmptyTensor2 /\ gb_i = 0 /\ gb_out = [applied |-> FALSE, out |-> NoBatch]

(* a source of n rows and c columns with pairwise different values *)
Source(n, c) ==
    Tensor2(n, c, [r \in 1..n |-> [k \in 1..c |-> (r - 1) * c + k]])

ApplyGetBatch ==
    /\ nb = "unit" /\ ~gb_out.applied
    /\ gb_out' = [applied |-> TRUE, out |-> get_batch(gb_source, gb_i)]
    /\ UNCHANGED <<commonVars, lstmVars, fmVars, histVars, fn_data, fn_bsz, fn_out,
                   gb_source, gb_i>>

----------------------------------------------------------------------------
Init ==
    /\ pc = 1 /\ halted = FALSE /\ raisedAt = 0 /\ log = <<>>
    /\ LstmIdle /\ FmIdle /\ HistIdle /\ UnitIdle /\ GbIdle
    /\ InitLstm \/ InitFm \/ InitHist

InitBatchify ==
    /\ nb = "unit" /\ fs = NoFiles
    /\ pc = 1 /\ halted = FALSE /\ raisedAt = 0 /\ log = <<>>
    /\ LstmIdle /\ FmIdle /\ HistIdle
    /\ fn_data \in SeqsUpTo({1, 2}, MaxDataLen)
    /\ fn_bsz \in 1..MaxBsz
    /\ fn_out = NoOut
    /\ GbIdle

(* the offsets of the claim: 0 <= i <= len(source) - 1 *)
InitGetBatch ==
    /\ nb = "unit" /\ fs = NoFiles
    /\ pc = 1 /\ halted = FALSE /\ raisedAt = 0 /\ log = <<>>
    /\ LstmIdle /\ FmIdle /\ HistIdle /\ UnitIdle
    /\ \E n \in 0..MaxRows, c \in 1..MaxCols :
         /\ gb_source = Source(n, c)
         /\ gb_i \in 0..(n - 1)
    /\ gb_out = [applied |-> FALSE, out |-> NoBatch]

(* faulty variant: swallows the exception and goes on with the next statement *)
RaiseSwallowed ==
    /\ ~halted /\ pc <= Len(Program)
    /\ ~(Cur.op = "isfile")
    /\ pc' = pc + 1
    /\ raisedAt' = pc
    /\ ev' = NoFrame /\ fwd' = NoFwd
    /\ UNCHANGED <<nb, halted, log, fs, corpus, train_data, val_data, test_data,
                   heap, rnn_model, man_model, model_fp16, batch0, collector,
                   quantizer, val_loss, reruns, calib_evals, weight_sum,
                   modules, distiller_name, hooks, cb_handles,
                   intermediary_results, intermediary_results_from_file,
                   last_out, printed, histVars, unitVars>>

(* A library call of the statement at pc raises: the exception propagates to
   the cell, nothing catches it, the run halts at this statement.  A dump
   that raises leaves a file that open(.., 'wb') has truncated. *)
Raise ==
    /\ ~halted /\ pc <= Len(Program)
    /\ halted' = TRUE
    /\ raisedAt' = pc
    /\ fs' = IF Cur.op = "dump" THEN [fs EXCEPT !.fms = PickleFile(<<>>)] ELSE fs
    /\ UNCHANGED <<nb, pc, log, lstmVars, fmVars, histVars, unitVars>>

----------------------------------------------------------------------------
Next ==
    \/ LoadCorpus \/ BatchifyCell \/ LoadPretrained \/ ManualModel \/ SaveManual
    \/ GetBatchCell \/ ConversionCheck \/ LoadManual \/ MakeCollector \/ IsFile
    \/ EnterContext \/ EvaluateBegin \/ EvaluateBatch \/ EvaluateReturn
    \/ CollectorSave \/ Construct \/ Prepare \/ Half \/ RerunCalibrationCell
    \/ CreateModels \/ Preprocess \/ ForwardBegin \/ ModuleCall \/ ForwardReturn
    \/ Top1 \/ InitDicts \/ AssignLayerFqNames \/ ApplyRegister \/ RemoveHooks
    \/ PrintLen \/ Dump \/ InitFromFile \/ Load \/ PrintNames
    \/ CreateModel \/ HistIter \/ HistEnd
    \/ Raise

Spec == Init /\ [][Next]_vars

NextBatchify == ApplyBatchify
SpecBatchify == InitBatchify /\ [][NextBatchify]_vars

NextGetBatch == ApplyGetBatch
SpecGetBatch == InitGetBatch /\ [][NextGetBatch]_vars

----------------------------------------------------------------------------
(* Properties *)

(* the statements that have completed *)
LogOp(j) == Program[log[j]].op
LogCell(j) == Program[log[j]].cell
Executed(op) == \E j \in 1..Len(log) : LogOp(j) = op
ExecutedStmt(st) == \E j \in 1..Len(log) : Program[log[j]] = st

(* C1: in a run of the LSTM notebook the pretrained model is loaded before it
   is converted, the converted model is saved before the calibration cell or
   a quantizer loads it, a quantizer is constructed only after the
   calibration cell has finished, and a quantized model is evaluated only
   after exactly one prepare_model call on its quantizer. *)
C1_PipelineOrder ==
    nb = "lstm" =>
      /\ \A j \in 1..Len(log) :
           /\ LogOp(j) = "manual_model" =>
                \E i \in 1..(j - 1) : LogOp(i) = "load_pretrained"
           /\ LogOp(j) \in {"load_manual", "construct"} =>
                \E i \in 1..(j - 1) : LogOp(i) = "save_manual"
           /\ LogOp(j) = "construct" =>
                /\ \E i \in 1..(j - 1) :
                     \/ LogOp(i) = "collector_save"
                     \/ LogOp(i) = "isfile" /\ LogOp(i + 1) # "enter_ctx"
                /\ \A i \in j..Len(log) : LogCell(i) # CalibrationCell
      /\ (~halted /\ pc <= Len(Program)
            /\ Cur.op = "evaluate" /\ Cur.arg = "quantizer") =>
           /\ quantizer # NoQuantizer
           /\ quantizer.prepared = 1
           /\ quantizer.model.quantized

C1_Witness ==
    /\ nb = "lstm" /\ Done
    /\ calib_evals = 1
    /\ quantizer.cell = 21 /\ quantizer.prepared = 1

(* C2: once the hooked forward pass has returned, intermediary_results has
   exactly one entry per module that has a distiller_name and was called in
   that pass, under the module's distiller_name, holding the output of the
   module's last call; so it has at most len(cb_handles) entries. *)
HookedPassDone == nb = "fm" /\ ExecutedStmt(Stmt("forward", 4, "hooked"))
C2_OneEntryPerHookedModule ==
    HookedPassDone =>
      LET seen == DOMAIN distiller_name \cap DOMAIN last_out
      IN  /\ DOMAIN intermediary_results = {distiller_name[m] : m \in seen}
          /\ DictLen(intermediary_results) = Cardinality(seen)
          /\ \A m \in seen :
               /\ intermediary_results[distiller_name[m]].shape = last_out[m].shape
               /\ intermediary_results[distiller_name[m]].data = last_out[m].data
          /\ DictLen(intermediary_results) <= Len(cb_handles)

C2_Witness ==
    /\ HookedPassDone
    /\ \E m1, m2, m3 \in modules :
         /\ m1 \in DOMAIN distiller_name /\ m1 \in DOMAIN last_out
         /\ m2 \notin DOMAIN distiller_name /\ m2 \in DOMAIN last_out
         /\ m3 \in DOMAIN distiller_name /\ m3 \notin DOMAIN last_out

(* C3: the mapping the load cell reads from the pickle file has the layer
   names intermediary_results had when it was dumped, and under every name
   an array of the same shape and data. *)
C3_PickleRoundTrip ==
    (nb = "fm" /\ Executed("load")) =>
      /\ DOMAIN intermediary_results_from_file = DOMAIN intermediary_results
      /\ \A name \in DOMAIN intermediary_results :
           /\ intermediary_results_from_file[name].shape
                = intermediary_results[name].shape
           /\ intermediary_results_from_file[name].data
                = intermediary_results[name].data

C3_Witness ==
    /\ nb = "fm" /\ Executed("load")
    /\ \E n1, n2 \in DOMAIN intermediary_results_from_file :
         /\ n1 # n2
         /\ intermediary_results_from_file[n1].shape
              # intermediary_results_from_file[n2].shape

(* C4: nothing catches an exception: once a statement has raised, no further
   statement runs.  When evaluate raises in the calibration cell,
   collector.save has not run and there is no statistics file; when the
   hooked forward pass raises, the hooks are not removed and the number of
   entries is not printed. *)
RaisedIn(st) == raisedAt # 0 /\ Program[raisedAt] = st
C4_State ==
    /\ (nb = "lstm" /\ RaisedIn(Stmt("evaluate", CalibrationCell, "man_model"))) =>
         /\ ~Executed("collector_save")
         /\ fs.stats = NoFile
    /\ (nb = "fm" /\ RaisedIn(Stmt("forward", 4, "hooked"))) =>
         /\ ~Executed("remove_hooks") /\ ~Executed("print_len")
         /\ hooks = {cb_handles[k] : k \in 1..Len(cb_handles)}
         /\ printed = <<>>
C4_ExceptionsHalt == [](raisedAt # 0 => halted) /\ []C4_State /\ [][raisedAt = 0]_vars

C4_Witness ==
    /\ nb = "lstm" /\ halted
    /\ RaisedIn(Stmt("evaluate", CalibrationCell, "man_model"))
    /\ ev.active /\ weight_sum > 0

(* C5: the calibration cell starts its evaluation pass and writes the
   statistics file only when the file does not exist; an existing file is
   never changed, also when the cell is executed again. *)
C5_Step ==
    /\ fs'.stats # fs.stats =>
         fs.stats = NoFile /\ Cur.op = "collector_save"
    /\ calib_evals' # calib_evals => fs.stats = NoFile
    /\ (nb = "lstm" /\ ~halted /\ pc <= Len(Program) /\ Cur.cell = CalibrationCell
          /\ fs.stats # NoFile) =>
         /\ ev' = ev /\ weight_sum' = weight_sum /\ val_loss' = val_loss
JustConverted == nb = "lstm" /\ Executed("manual_model") /\ ~Executed("check")
C6_ManualModelCopies ==
    JustConverted =>
      /\ man_model.impl = "DistillerRNNModel"
      /\ man_model.nlayers = rnn_model.nlayers /\ man_model.ninp = rnn_model.ninp
      /\ man_model.nhid = rnn_model.nhid /\ man_model.ntoken = rnn_model.ntoken
      /\ man_model.tie_weights = rnn_model.tie_weights
      /\ heap[man_model.encoder_weight] = heap[rnn_model.encoder_weight]
      /\ heap[man_model.decoder_weight] = heap[rnn_model.decoder_weight]
      /\ heap[man_model.decoder_bias] = heap[rnn_model.decoder_bias]
      /\ man_model.rnn.impl = "DistillerLSTM"
      /\ heap[man_model.rnn.weight] = heap[rnn_model.rnn.weight]
      /\ {man_model.encoder_weight, man_model.decoder_weight,
          man_model.decoder_bias} \cap ParamIds(rnn_model) = {}
      /\ rnn_model.impl = "RNNModel" /\ rnn_model.training
      /\ rnn_model.nlayers = fs.checkpoint_best.model.nlayers
      /\ rnn_model.ninp = fs.checkpoint_best.model.ninp
      /\ rnn_model.tie_weights = fs.checkpoint_best.model.tie_weights
      /\ heap[rnn_model.encoder_weight]
           = fs.checkpoint_best.vals[fs.checkpoint_best.model.encoder_weight]
      /\ heap[rnn_model.decoder_weight]
           = fs.checkpoint_best.vals[fs.checkpoint_best.model.decoder_weight]
      /\ heap[rnn_model.decoder_bias]
           = fs.checkpoint_best.vals[fs.checkpoint_best.model.decoder_bias]
      /\ heap[rnn_model.rnn.weight]
           = fs.checkpoint_best.vals[fs.checkpoint_best.model.rnn.weight]

C6_Witness ==
    /\ JustConverted
    /\ rnn_model.tie_weights
    /\ rnn_model.encoder_weight = rnn_model.decoder_weight
    /\ man_model.encoder_weight # man_model.decoder_weight

(* C7: the histogram loop has drawn one figure for each parameter of rank 4
   it has passed, in the order of named_parameters, and none for another
   parameter; each figure's histogram is over all numel elements. *)
C7_OneFigurePerRank4Param ==
    nb = "hist" =>
      LET passed == SubSeq(model_params, 1, hist_i - 1)
          rank4 == SelectSeq(passed, LAMBDA w : Len(w.shape) = 4)
      IN  /\ Len(figures) = Len(rank4)
          /\ \A k \in 1..Len(rank4) :
               /\ figures[k].title = <<rank4[k].name, rank4[k].shape>>
               /\ Len(figures[k].hist) = Prod(rank4[k].shape)
               /\ figures[k].hist = rank4[k].data

C7_Witness ==
    /\ nb = "hist" /\ Done
    /\ Len(model_params) = 3 /\ Len(figures) = 2
    /\ \E k \in 1..2 : \E x \in 1..Len(figures[k].hist) : figures[k].hist[x] = 0

(* C8: intermediary_results is written only by a step inside the hooked
   forward call, between its start and its return, one entry at a time. *)
Written(d, e) == {n \in DOMAIN e : n \notin DOMAIN d \/ d[n] # e[n]}
C8_Step ==
    intermediary_results' # intermediary_results =>
      /\ nb = "fm" /\ ~halted
      /\ Cur = Stmt("forward", 4, "hooked")
      /\ fwd.active /\ fwd'.active /\ pc' = pc
      /\ DOMAIN intermediary_results \subseteq DOMAIN intermediary_results'
      /\ Cardinality(Written(intermediary_results, intermediary_results')) = 1
C8_WrittenOnlyInsideForward == [][C8_Step]_vars

C8_Witness ==
    /\ HookedPassDone
    /\ DictLen(intermediary_results) = 2
    /\ Executed("remove_hooks") /\ hooks = {}

(* C9: the weights len(data) of the batches of one evaluate call sum to the
   divisor len(data_source), so that the value returned is the average loss
   per time step. *)
C9_WeightsSumToDivisor ==
    (nb = "lstm" /\ ~ev.active /\ val_loss # NoLoss) =>
      weight_sum = val_loss.len

(* C10: batchify(data, bsz) returns nbatch = floor(len(data)/bsz) rows of bsz
   columns; column c holds data[c*nbatch] .. data[(c+1)*nbatch - 1] in their
   order, and only the trailing len(data) mod bsz elements are dropped. *)
C10_BatchifyLayout ==
    fn_out.applied =>
      LET nbatch == Len(fn_data) \div fn_bsz
          out == fn_out.out
      IN  /\ out.shape = <<nbatch, fn_bsz>>
          /\ Len(out.rows) = nbatch
          /\ Len(fn_data) - nbatch * fn_bsz = Len(fn_data) % fn_bsz
          /\ \A k \in 0..(nbatch - 1) :
               /\ Len(out.rows[k + 1]) = fn_bsz
               /\ \A c \in 0..(fn_bsz - 1) :
                    out.rows[k + 1][c + 1] = fn_data[c * nbatch + k + 1]

C10_Witness ==
    /\ fn_out.applied
    /\ fn_bsz >= 2 /\ Len(fn_data) \div fn_bsz >= 2 /\ Len(fn_data) % fn_bsz > 0
    /\ fn_out.out.rows[1] # fn_out.out.rows[2]

(* C11: for an offset 0 <= i <= len(source) - 1, get_batch(source, i) returns
   data and target of the same number seq_len = min(sequence_len,
   len(source) - 1 - i) of time steps, data step k being source row i + k and
   target step k source row i + 1 + k, and asks for no row after the last. *)
C11_GetBatchShifted ==
    gb_out.applied =>
      LET n == gb_source.shape[1]
          c == gb_source.shape[2]
          seq_len == IF n - 1 - gb_i < sequence_len THEN n - 1 - gb_i
                     ELSE sequence_len
          data == gb_out.out.data
          target == gb_out.out.target
      IN  /\ seq_len >= 0
          /\ data.shape = <<seq_len, c>> /\ Len(data.rows) = seq_len
          /\ Len(target) = seq_len * c
          /\ gb_i + 1 + seq_len <= n
          /\ \A k \in 0..(seq_len - 1) :
               /\ data.rows[k + 1] = gb_source.rows[gb_i + k + 1]
               /\ \A x \in 1..c :
                    target[k * c + x] = gb_source.rows[gb_i + 1 + k + 1][x]

C11_Witness ==
    /\ gb_out.applied
    /\ gb_i >= sequence_len
    /\ gb_out.out.data.shape[1] \in 1..(sequence_len - 1)
    /\ gb_source.shape[2] = 2

(* C12: for a data_source of two rows or more, no batch that evaluate fetches
   has zero time steps, so no loss is computed on an empty batch. *)
C12_NoEmptyBatch ==
    (nb = "lstm" /\ TLen(val_data) >= 2) => (~ev.nan /\ ~val_loss.nan)

====
